---- MODULE Spec2Model ----
(***************************************************************************)
(* Model of pyneuroml.swc: the SWC point graph, NeuroMLWriter (ExportNML)  *)
(* which builds a segment model from it, and convert_to_swc (ExportSWC)    *)
(* which flattens a segment model back into SWC lines.                     *)
(***************************************************************************)
EXTENDS Integers, Sequences, FiniteSets, TLC

\* ------------------------------------------------------------------ bounds
\* largest number of nodes loaded into the point graph
MaxNodes == 4
\* largest number of nodes loaded when every type code may occur
MaxNodesAnyType == 3
\* largest number of segments of a hand-written (not builder-made) cell
MaxSegs == 2

\* ------------------------------------------------------- program constants
\* SWCNode type codes; section_types lists their names at these indices
UNDEFINED == 0
SOMA == 1
AXON == 2
BASAL_DENDRITE == 3
APICAL_DENDRITE == 4
\* first custom type code (get_groups_for_type: segment_type >= 5)
CUSTOM == 5
\* fraction_along is kept in units of 1e-5: 0.0001 is Tol, 1.0 is One
Tol == 10
One == 100000

\* type codes and x coordinates the loaded nodes are drawn from
TypeCodes == {UNDEFINED, SOMA, AXON, BASAL_DENDRITE, APICAL_DENDRITE, CUSTOM}
XCoords == {0, 1}
\* the (type, x) pairs of the larger trees: x varies where the builder reads it
\* (the soma points, which it sorts by x)
NodeKinds == ({SOMA} \X XCoords) \cup ({UNDEFINED, AXON, BASAL_DENDRITE, CUSTOM} \X {0})

\* absent optional value (segment.proximal / segment.parent is None)
None == <<>>

VARIABLES
  points,                    \* swc_graph.nodes, in file order
  load_result,               \* the id of the last node handed to add_node, and how it ended
  calls,                     \* the calls of convert_to_swc under way, step by step
  cell_segments,             \* cell.morphology.segments
  cell_groups,               \* cell.morphology.segment_groups
  point_indices_vs_seg_ids,  \* NeuroMLWriter.point_indices_vs_seg_ids
  next_segment_id,           \* NeuroMLWriter.next_segment_id
  processed_nodes,           \* NeuroMLWriter.processed_nodes
  segment_types,             \* NeuroMLWriter.segment_types
  segment_groups,            \* NeuroMLWriter.segment_groups
  nml_result,                \* outcome of nml_string: none, empty, ok, ValueError
  nml_doc,                   \* the cells of the NeuroML document on file
  line_count,                \* ExportSWC.line_count (module global)
  line_index_vs_distals,     \* ExportSWC.line_index_vs_distals (module global)
  line_index_vs_proximals,   \* ExportSWC.line_index_vs_proximals (module global)
  nml_read,                  \* the document the last convert_to_swc call read
  lines,                     \* convert_to_swc's local list of emitted lines
  seg_ids,                   \* the (cell, segment id) pairs the last call visited
  swc_files,                 \* the .swc file written for each cell of the document
  swc_result                 \* how the last convert_to_swc call ended, and in which cell

writer_vars == <<cell_segments, cell_groups, point_indices_vs_seg_ids,
                 next_segment_id, processed_nodes, segment_types, segment_groups,
                 nml_result>>
export_vars == <<line_count, line_index_vs_distals, line_index_vs_proximals,
                 nml_read, lines, seg_ids, swc_files, swc_result>>
loader_vars == <<points, load_result>>
vars == <<loader_vars, writer_vars, nml_doc, export_vars, calls>>

\* ----------------------------------------------------------------- helpers
\* dict assignment d[k] = v
Put(d, k, v) == [i \in (DOMAIN d) \cup {k} |-> IF i = k THEN v ELSE d[i]]

EmptyDict == [i \in {} |-> 0]

\* the one element of a singleton set; {F(x) : x \in {e}} computes e once
The(S) == CHOOSE x \in S : TRUE

\* ------------------------------------------------------------ point graph
\* SWCNode(id, type, x, y, z, radius, parent_id)
SWCNode(id, type, x, parent_id) ==
  [id |-> id, type |-> type, x |-> x, y |-> id, z |-> 0, radius |-> 1,
   parent_id |-> parent_id]

\* node.children: the nodes whose parent_id is id, in declaration order
RECURSIVE ChildrenFrom(_, _, _)
ChildrenFrom(pts, id, i) ==
  IF i > Len(pts) THEN <<>>
  ELSE (IF pts[i].parent_id = id THEN <<i>> ELSE <<>>) \o ChildrenFrom(pts, id, i + 1)

Children(pts, id) == ChildrenFrom(pts, id, 1)

\* an add_node that puts the new node in the place of the one with the same id
add_node_replace(pts, node) ==
  IF \E i \in DOMAIN pts : pts[i].id = node.id
    THEN [nodes |-> [i \in DOMAIN pts |-> IF pts[i].id = node.id THEN node ELSE pts[i]],
          err |-> ""]
    ELSE [nodes |-> Append(pts, node), err |-> ""]

\* SWCGraph.add_node: the nodes afterwards and the error raised, if any (the
\* loader's tests expect the duplicate error as a ValueError)
add_node(pts, node) ==
  IF \E i \in DOMAIN pts : pts[i].id = node.id
    THEN [nodes |-> pts, err |-> "DuplicateNodeError"]
    ELSE [nodes |-> Append(pts, node), err |-> ""]

\* the child adjacency of the graph: parent id -> children in file order
adjacency(pts) == [id \in DOMAIN pts |-> Children(pts, id)]

\* Point3DWithDiam(x=p.x, y=p.y, z=p.z, diameter=2 * p.radius)
Point3DWithDiam(p) == <<p.x, p.y, p.z, 2 * p.radius>>

\* Segment(id=...), with segment.proximal, segment.distal, segment.parent
Segment(id, proximal, distal, parent) ==
  [id |-> id, proximal |-> proximal, distal |-> distal, parent |-> parent]

\* SegmentParent(segments=seg_id): fraction_along defaults to 1.0
SegmentParent(seg_id) == <<seg_id, One>>

\* ---------------------------------------------------------- NeuroMLWriter
\* the writer's fields that the traversal updates, as one record
Writer(segs, pvs, next, processed, types, groups) ==
  [segments |-> segs, point_indices_vs_seg_ids |-> pvs, next_segment_id |-> next,
   processed_nodes |-> processed, segment_types |-> types, segment_groups |-> groups]

GroupNames == <<"all", "soma_group", "axon_group", "dendrite_group",
                "basal_dendrite", "apical_dendrite">>

\* NeuroMLWriter.__init__
NewWriter ==
  Writer(<<>>, EmptyDict, 0, {}, EmptyDict,
         [g \in {GroupNames[i] : i \in DOMAIN GroupNames} |-> {}])

\* get_groups_for_type without the branch for custom type codes
get_groups_no_custom(segment_type) ==
  <<"all">> \o
  (IF segment_type = SOMA THEN <<"soma_group">>
   ELSE IF segment_type = AXON THEN <<"axon_group">>
   ELSE IF segment_type = BASAL_DENDRITE THEN <<"basal_dendrite", "dendrite_group">>
   ELSE IF segment_type = APICAL_DENDRITE THEN <<"apical_dendrite", "dendrite_group">>
   ELSE <<>>)

\* NeuroMLWriter.get_groups_for_type
get_groups_for_type(segment_type) ==
  <<"all">> \o
  (IF segment_type = SOMA THEN <<"soma_group">>
   ELSE IF segment_type = AXON THEN <<"axon_group">>
   ELSE IF segment_type = BASAL_DENDRITE THEN <<"basal_dendrite", "dendrite_group">>
   ELSE IF segment_type = APICAL_DENDRITE THEN <<"apical_dendrite", "dendrite_group">>
   ELSE IF segment_type >= CUSTOM THEN <<"dendrite_group">>
   ELSE <<>>)

\* NeuroMLWriter.add_segment_to_groups
add_segment_to_groups(groups, seg_id, segment_type) ==
  LET gs == get_groups_for_type(segment_type)
      names == {gs[i] : i \in DOMAIN gs}
  IN [g \in DOMAIN groups |-> IF g \in names THEN groups[g] \cup {seg_id} ELSE groups[g]]

\* Register without the advance of next_segment_id
RegisterSameId(W, segment, point_id, type) ==
  [W EXCEPT !.segments = Append(@, segment),
            !.point_indices_vs_seg_ids = Put(@, point_id, segment.id),
            !.segment_types = Put(@, segment.id, type),
            !.segment_groups = add_segment_to_groups(@, segment.id, type)]

\* the bookkeeping every emitted segment gets: appended to the morphology,
\* mapped from its point, typed, grouped, and the id counter advanced
Register(W, segment, point_id, type) ==
  [W EXCEPT !.segments = Append(@, segment),
            !.point_indices_vs_seg_ids = Put(@, point_id, segment.id),
            !.segment_types = Put(@, segment.id, type),
            !.segment_groups = add_segment_to_groups(@, segment.id, type),
            !.next_segment_id = @ + 1]

\* [p for p in self.points if p.type == SWCNode.SOMA], as node ids
RECURSIVE SomaFrom(_, _)
SomaFrom(pts, i) ==
  IF i > Len(pts) THEN <<>>
  ELSE (IF pts[i].type = SOMA THEN <<i>> ELSE <<>>) \o SomaFrom(pts, i + 1)

soma_points(pts) == SomaFrom(pts, 1)

\* an insertion that keeps file order whatever the x coordinates
InsertLast(pts, sorted, p) == Append(sorted, p)

\* sorted(soma_points, key=lambda p: p.x): stable, ascending
RECURSIVE InsertByX(_, _, _)
InsertByX(pts, sorted, p) ==
  IF sorted = <<>> THEN <<p>>
  ELSE IF pts[p].x < pts[Head(sorted)].x THEN <<p>> \o sorted
  ELSE <<Head(sorted)>> \o InsertByX(pts, Tail(sorted), p)

RECURSIVE SortedByX(_, _)
SortedByX(pts, s) ==
  IF s = <<>> THEN <<>>
  ELSE InsertByX(pts, SortedByX(pts, SubSeq(s, 1, Len(s) - 1)), s[Len(s)])

\* ThreePointSoma with the first segment's proximal and distal points exchanged
ThreePointSomaSwapped(W, pts, this_point, sp) ==
  LET middle_point == pts[sp[2]]
      end_point == pts[sp[3]]
      first == Segment(W.next_segment_id, Point3DWithDiam(pts[this_point]),
                       Point3DWithDiam(middle_point), None)
      W1 == Register(W, first, this_point, SOMA)
      second == Segment(W1.next_segment_id, None, Point3DWithDiam(end_point),
                        SegmentParent(W1.next_segment_id - 1))
  IN Register(W1, second, end_point.id, SOMA)

\* handle_soma, three soma points, called for the first of them
ThreePointSoma(W, pts, this_point, sp) ==
  LET middle_point == pts[sp[2]]
      end_point == pts[sp[3]]
      first == Segment(W.next_segment_id, Point3DWithDiam(middle_point),
                       Point3DWithDiam(pts[this_point]), None)
      W1 == Register(W, first, this_point, SOMA)
      second == Segment(W1.next_segment_id, None, Point3DWithDiam(end_point),
                        SegmentParent(W1.next_segment_id - 1))
  IN Register(W1, second, end_point.id, SOMA)

\* SinglePointSoma that leaves the proximal point unset
SinglePointSomaNoProximal(W, pts, this_point) ==
  Register(W, Segment(W.next_segment_id, None, Point3DWithDiam(pts[this_point]), None),
           this_point, SOMA)

\* handle_soma, one soma point
SinglePointSoma(W, pts, this_point) ==
  Register(W, Segment(W.next_segment_id, Point3DWithDiam(pts[this_point]),
                      Point3DWithDiam(pts[this_point]), None),
           this_point, SOMA)

\* handle_soma, any other number of soma points: the loop over the sorted
\* soma points (i is the loop's index plus one)
RECURSIVE MultiPointSoma(_, _, _, _)
MultiPointSoma(W, pts, sorted, i) ==
  IF i > Len(sorted) THEN W
  ELSE
    LET current_point == sorted[i] IN
    IF current_point \in W.processed_nodes THEN MultiPointSoma(W, pts, sorted, i + 1)
    ELSE
      LET seg == Segment(W.next_segment_id,
                   IF i = 1 THEN Point3DWithDiam(pts[current_point]) ELSE None,
                   IF i < Len(sorted) THEN Point3DWithDiam(pts[sorted[i + 1]])
                                      ELSE Point3DWithDiam(pts[current_point]),
                   IF i = 1 THEN None ELSE SegmentParent(W.next_segment_id - 1))
      IN The({MultiPointSoma([W1 EXCEPT !.processed_nodes = @ \cup {current_point}],
                             pts, sorted, i + 1) :
                W1 \in {Register(W, seg, current_point, SOMA)}})

\* handle_soma where every soma invocation runs the multi-point loop, not only
\* the one for the first of the sorted points
handle_soma_every_invocation(W, pts, this_point, parent_point) ==
  IF this_point \in W.processed_nodes THEN W
  ELSE
    LET sp == soma_points(pts)
        W1 == IF Len(sp) = 3
                THEN (IF this_point = sp[1] THEN ThreePointSoma(W, pts, this_point, sp)
                      ELSE W)
              ELSE IF Len(sp) = 1 THEN SinglePointSoma(W, pts, this_point)
              ELSE MultiPointSoma(W, pts, SortedByX(pts, sp), 1)
    IN [W1 EXCEPT !.processed_nodes = @ \cup {this_point}]

\* NeuroMLWriter.handle_soma
handle_soma(W, pts, this_point, parent_point) ==
  IF this_point \in W.processed_nodes THEN W
  ELSE
    LET sp == soma_points(pts)
        W1 == IF Len(sp) = 3
                THEN (IF this_point = sp[1] THEN ThreePointSoma(W, pts, this_point, sp)
                      ELSE W)
              ELSE IF Len(sp) = 1 THEN SinglePointSoma(W, pts, this_point)
              ELSE LET sorted == SortedByX(pts, sp) IN
                   IF this_point = sorted[1] THEN MultiPointSoma(W, pts, sorted, 1)
                   ELSE W
    IN [W1 EXCEPT !.processed_nodes = @ \cup {this_point}]

\* create_segment: segment.parent, set when the parent point owns a segment
create_segment_parent(W, parent_point) ==
  IF parent_point \in DOMAIN W.point_indices_vs_seg_ids
    THEN SegmentParent(W.point_indices_vs_seg_ids[parent_point])
    ELSE None

\* a proximal taken from the parent point whenever one is set
proximal_from_parent(pts, this_point, parent_point) ==
  IF pts[this_point].type # pts[parent_point].type
       \/ Len(Children(pts, parent_point)) > 1
    THEN Point3DWithDiam(pts[parent_point])
    ELSE None

\* create_segment: segment.proximal
create_segment_proximal(pts, this_point, parent_point) ==
  LET is_branch_point == Len(Children(pts, parent_point)) > 1
      is_type_change == pts[this_point].type # pts[parent_point].type
  IN IF is_type_change THEN Point3DWithDiam(pts[this_point])
     ELSE IF is_branch_point THEN Point3DWithDiam(pts[parent_point])
     ELSE None

\* a distal that is the point itself in every case
distal_own_point(W, pts, this_point, parent_point) == Point3DWithDiam(pts[this_point])

\* create_segment: segment.distal
create_segment_distal(W, pts, this_point, parent_point) ==
  LET tp == pts[this_point]
      kids == Children(pts, this_point)
      is_branch_point == Len(Children(pts, parent_point)) > 1
      is_type_change == tp.type # pts[parent_point].type
  IN IF is_type_change
       THEN (IF kids # <<>> THEN Point3DWithDiam(pts[kids[1]])
             ELSE Point3DWithDiam(tp))
     ELSE IF is_branch_point THEN Point3DWithDiam(tp)
     ELSE IF this_point \notin W.processed_nodes THEN Point3DWithDiam(tp)
     ELSE None

\* the body of create_segment: the new segment and its bookkeeping
emit_segment(W, pts, this_point, parent_point) ==
  LET seg_id == W.next_segment_id
      W1 == Register(W, Segment(seg_id,
                                create_segment_proximal(pts, this_point, parent_point),
                                create_segment_distal(W, pts, this_point, parent_point),
                                create_segment_parent(W, parent_point)),
                     this_point, pts[this_point].type)
  IN [W1 EXCEPT !.processed_nodes = @ \cup {this_point}]

\* a create_segment that makes a segment only when told the point starts a branch
create_segment_if_new_branch(W, pts, this_point, parent_point, new_branch) ==
  IF new_branch THEN emit_segment(W, pts, this_point, parent_point)
  ELSE [W EXCEPT !.processed_nodes = @ \cup {this_point}]

\* NeuroMLWriter.create_segment; new_branch is not read
create_segment(W, pts, this_point, parent_point, new_branch) ==
  emit_segment(W, pts, this_point, parent_point)

\* NeuroMLWriter.parse_tree, and its loop over this_point.children
RECURSIVE parse_tree(_, _, _, _)
RECURSIVE parse_children(_, _, _, _, _)
parse_tree(W, pts, parent_point, this_point) ==
  IF this_point \in W.processed_nodes THEN W
  ELSE
    LET type_change == pts[this_point].type # pts[parent_point].type
        new_branch == Len(Children(pts, parent_point)) > 1
        W1 == IF pts[this_point].type = SOMA
                THEN handle_soma(W, pts, this_point, parent_point)
              ELSE IF this_point \notin W.processed_nodes
                THEN create_segment(W, pts, this_point, parent_point,
                                    new_branch \/ type_change)
              ELSE W
    IN The({parse_children(W2, pts, this_point, Children(pts, this_point), 1) :
              W2 \in {[W1 EXCEPT !.processed_nodes = @ \cup {this_point}]}})

parse_children(W, pts, this_point, kids, i) ==
  IF i > Len(kids) THEN W
  ELSE The({parse_children(W1, pts, this_point, kids, i + 1) :
              W1 \in {IF kids[i] \notin W.processed_nodes
                        THEN parse_tree(W, pts, this_point, kids[i])
                        ELSE W}})

\* NeuroMLWriter.find_start_point
find_start_point(pts) ==
  LET sp == soma_points(pts) IN IF sp # <<>> THEN sp[1] ELSE 1

\* sorted(members)
RECURSIVE SortedSeq(_)
SortedSeq(S) ==
  IF S = {} THEN <<>>
  ELSE LET m == CHOOSE x \in S : \A y \in S : x <= y IN <<m>> \o SortedSeq(S \ {m})

\* create_segment_groups, first loop: a SegmentGroup for every non-empty group
RECURSIVE GroupsFrom(_, _)
GroupsFrom(groups, i) ==
  IF i > Len(GroupNames) THEN <<>>
  ELSE (IF groups[GroupNames[i]] # {}
          THEN <<[id |-> GroupNames[i], members |-> SortedSeq(groups[GroupNames[i]])]>>
          ELSE <<>>) \o GroupsFrom(groups, i + 1)

\* the min() taken over every segment id, soma or not
AnySegmentIds(types) == DOMAIN types

\* create_segment_groups: the ids the min() for root_segment_id ranges over
SomaSegmentIds(types) == {s \in DOMAIN types : types[s] = SOMA}

\* Cell with its morphology's segments and segment groups
Cell(segs, groups) == [segments |-> segs, segment_groups |-> groups]

\* -------------------------------------------------------------- ExportSWC
\* the three module globals
Globals(lc, distals, proximals) ==
  [line_count |-> lc, line_index_vs_distals |-> distals,
   line_index_vs_proximals |-> proximals]

\* one SWC line: line_template % (line_count, type, x, y, z, r, parent_line, comment)
Line(n, type, point, parent_line) ==
  [n |-> n, type |-> type, x |-> point[1], y |-> point[2], z |-> point[3],
   r |-> point[4] \div 2, parent |-> parent_line]

\* cell.get_ordered_segments_in_groups([sg]): the ids of the group's members in
\* the group's order, or None when the cell has no group sg
ord_segs(cell, sg) ==
  LET found == {i \in DOMAIN cell.segment_groups : cell.segment_groups[i].id = sg}
  IN IF found = {} THEN None
     ELSE cell.segment_groups[CHOOSE i \in found : TRUE].members

\* the segment of the cell with the given id
SegmentById(cell, id) ==
  cell.segments[CHOOSE i \in DOMAIN cell.segments : cell.segments[i].id = id]

\* the exceptions the exporter raises itself
AttachmentError == "Exception: not connected to the 0 or 1 point along the parent"
CoverageError == "Exception: numbers of the segments in groups"

\* a lookup that takes any fraction other than 1 for the proximal end
ParentLookupLenient(G, parent_seg_id, fract, fraction_along) ==
  IF fract = One
    THEN (IF parent_seg_id \in DOMAIN G.line_index_vs_distals THEN "" ELSE "KeyError")
  ELSE (IF parent_seg_id \in DOMAIN G.line_index_vs_proximals THEN "" ELSE "KeyError")

\* how the lookup of the parent's line ends: "" when a line is found, else the
\* exception; fract is the snapped fraction, fraction_along the one of the file
ParentLookup(G, parent_seg_id, fract, fraction_along) ==
  IF fract = One
    THEN (IF parent_seg_id \in DOMAIN G.line_index_vs_distals THEN "" ELSE "KeyError")
  ELSE IF fraction_along = 0
    THEN (IF parent_seg_id \in DOMAIN G.line_index_vs_proximals THEN "" ELSE "KeyError")
  ELSE AttachmentError

\* a proximal end that gets no line of its own
NoProximalLines(n, type, segment, parent_line) == <<>>

\* the line _get_lines_for_seg_group appends for the proximal end of a segment
ProximalLines(n, type, segment, parent_line) ==
  IF segment.proximal # None THEN <<Line(n, type, segment.proximal, parent_line)>>
  ELSE <<>>

\* the body of the loop of _get_lines_for_seg_group for one segment; S holds the
\* globals, the lines and seg_ids lists and err, the exception raised if any
SegLines(S, segment, type) ==
  LET G == S.G
      id == segment.id
      has_parent == segment.parent # None
      parent_seg_id == IF has_parent THEN segment.parent[1] ELSE -1
      fraction_along == IF has_parent THEN segment.parent[2] ELSE 0
      fract0 == IF fraction_along < Tol THEN 0 ELSE fraction_along
      d == fract0 - One
      fract == IF (IF d < 0 THEN -d ELSE d) < Tol THEN One ELSE fract0
      err == IF ~has_parent THEN ""
             ELSE ParentLookup(G, parent_seg_id, fract, fraction_along)
      parent_line == IF ~has_parent \/ err # "" THEN -1
                     ELSE IF fract = One THEN G.line_index_vs_distals[parent_seg_id]
                     ELSE G.line_index_vs_proximals[parent_seg_id]
      has_prox == segment.proximal # None
      prox_lines == ProximalLines(G.line_count, type, segment, parent_line)
      proximals1 == IF has_prox THEN Put(G.line_index_vs_proximals, id, G.line_count)
                    ELSE G.line_index_vs_proximals
      parent_line1 == IF has_prox THEN G.line_count ELSE parent_line
      lc1 == IF has_prox THEN G.line_count + 1 ELSE G.line_count
      dist_line == Line(lc1, type, segment.distal, parent_line1)
  IN IF err # "" THEN [S EXCEPT !.err = err, !.seg_ids = Append(@, id)]
     ELSE [G |-> Globals(lc1 + 1, Put(G.line_index_vs_distals, id, lc1), proximals1),
           lines |-> S.lines \o prox_lines \o <<dist_line>>,
           seg_ids |-> Append(S.seg_ids, id),
           err |-> ""]

RECURSIVE SegLoop(_, _, _, _, _)
SegLoop(S, cell, segs, type, i) ==
  IF i > Len(segs) \/ S.err # "" THEN S
  ELSE The({SegLoop(S1, cell, segs, type, i + 1) :
              S1 \in {SegLines(S, SegmentById(cell, segs[i]), type)}})

\* _get_lines_for_seg_group(cell, sg, type), from globals G
get_lines_for_seg_group(G, cell, sg, type) ==
  LET S0 == [G |-> G, lines |-> <<>>, seg_ids |-> <<>>, err |-> ""]
      segs == ord_segs(cell, sg)
  IN IF segs = None THEN S0 ELSE SegLoop(S0, cell, segs, type, 1)

\* the seg_ids of one group pass, tagged with the cell they belong to
Tagged(c, ids) == [i \in DOMAIN ids |-> <<c, ids[i]>>]

\* a check that lets every cell through
CountsIgnored(n_segments, soma_seg_count, dend_seg_count, axon_seg_count) == TRUE

\* the count comparison after the three group passes: does the export of the cell go on
CountsAgree(n_segments, soma_seg_count, dend_seg_count, axon_seg_count) ==
  n_segments = soma_seg_count + dend_seg_count + axon_seg_count

\* AfterGroups with the axon lines added before the dendrite lines
AfterGroupsAxonFirst(C, cell, c, soma, dend, axon) ==
  LET opened == Put(C.files, c, <<>>)
      all_lines == C.lines \o soma.lines \o axon.lines \o dend.lines
      v3 == C.seg_ids \o Tagged(c, soma.seg_ids) \o Tagged(c, dend.seg_ids)
              \o Tagged(c, axon.seg_ids)
      failed == IF soma.err # "" THEN soma.err
                ELSE IF dend.err # "" THEN dend.err
                ELSE IF axon.err # "" THEN axon.err
                ELSE IF ~CountsAgree(Len(cell.segments), Len(soma.seg_ids),
                                     Len(dend.seg_ids), Len(axon.seg_ids))
                  THEN CoverageError
                ELSE ""
  IN [G |-> axon.G, lines |-> all_lines,
      files |-> IF failed = "" THEN Put(opened, c, all_lines) ELSE opened,
      seg_ids |-> v3, err |-> failed, cell |-> c]

\* AfterGroups that starts the lines of each cell from an empty list
AfterGroupsOwnLines(C, cell, c, soma, dend, axon) ==
  LET opened == Put(C.files, c, <<>>)
      all_lines == soma.lines \o dend.lines \o axon.lines
      v3 == C.seg_ids \o Tagged(c, soma.seg_ids) \o Tagged(c, dend.seg_ids)
              \o Tagged(c, axon.seg_ids)
      failed == IF soma.err # "" THEN soma.err
                ELSE IF dend.err # "" THEN dend.err
                ELSE IF axon.err # "" THEN axon.err
                ELSE IF ~CountsAgree(Len(cell.segments), Len(soma.seg_ids),
                                     Len(dend.seg_ids), Len(axon.seg_ids))
                  THEN CoverageError
                ELSE ""
  IN [G |-> axon.G, lines |-> all_lines,
      files |-> IF failed = "" THEN Put(opened, c, all_lines) ELSE opened,
      seg_ids |-> v3, err |-> failed, cell |-> c]

\* how convert_to_swc's loop body ends for cell c, given what the three calls of
\* _get_lines_for_seg_group returned; C holds the globals, the lines list, the
\* files on disk, the segments visited, and err and cell: the exception raised,
\* if any, and the cell it was raised in
AfterGroups(C, cell, c, soma, dend, axon) ==
  LET opened == Put(C.files, c, <<>>)
      all_lines == C.lines \o soma.lines \o dend.lines \o axon.lines
      v1 == C.seg_ids \o Tagged(c, soma.seg_ids)
      v2 == v1 \o Tagged(c, dend.seg_ids)
      v3 == v2 \o Tagged(c, axon.seg_ids)
  IN IF soma.err # ""
       THEN [G |-> soma.G, lines |-> C.lines, files |-> opened, seg_ids |-> v1,
             err |-> soma.err, cell |-> c]
     ELSE IF dend.err # ""
       THEN [G |-> dend.G, lines |-> C.lines \o soma.lines, files |-> opened,
             seg_ids |-> v2, err |-> dend.err, cell |-> c]
     ELSE IF axon.err # ""
       THEN [G |-> axon.G, lines |-> C.lines \o soma.lines \o dend.lines,
             files |-> opened, seg_ids |-> v3, err |-> axon.err, cell |-> c]
     ELSE IF ~CountsAgree(Len(cell.segments), Len(soma.seg_ids), Len(dend.seg_ids),
                          Len(axon.seg_ids))
       THEN [G |-> axon.G, lines |-> all_lines, files |-> opened, seg_ids |-> v3,
             err |-> CoverageError, cell |-> c]
     ELSE [G |-> axon.G, lines |-> all_lines, files |-> Put(opened, c, all_lines),
           seg_ids |-> v3, err |-> "", cell |-> c]

\* a group pass that is not made because an earlier one raised
NotRun(G) == [G |-> G, lines |-> <<>>, seg_ids |-> <<>>, err |-> ""]

\* the body of convert_to_swc's loop for one cell: soma_group as type 1, then
\* dendrite_group as type 3, then axon_group as type 2
AfterDend(C, cell, c, soma, dend) ==
  The({AfterGroups(C, cell, c, soma, dend, axon) :
         axon \in {IF dend.err # "" THEN NotRun(dend.G)
                   ELSE get_lines_for_seg_group(dend.G, cell, "axon_group", AXON)}})

AfterSoma(C, cell, c, soma) ==
  The({AfterDend(C, cell, c, soma, dend) :
         dend \in {IF soma.err # "" THEN NotRun(soma.G)
                   ELSE get_lines_for_seg_group(soma.G, cell, "dendrite_group",
                                                BASAL_DENDRITE)}})

ConvertCell(C, cell, c) ==
  The({AfterSoma(C, cell, c, soma) :
         soma \in {get_lines_for_seg_group(C.G, cell, "soma_group", SOMA)}})

RECURSIVE CellLoop(_, _, _)
CellLoop(C, doc, c) ==
  IF c > Len(doc) \/ C.err # "" THEN C
  ELSE The({CellLoop(C1, doc, c + 1) : C1 \in {ConvertCell(C, doc[c], c)}})

\* an entry that leaves the globals as the previous call left them
KeepGlobals(G) == G

\* the globals as convert_to_swc sets them on entry, given their old values
EntryGlobals(G) == Globals(1, EmptyDict, EmptyDict)

\* convert_to_swc(nml_file_name), for the document read from the file
convert_to_swc(G, files, doc) ==
  CellLoop([G |-> EntryGlobals(G), lines |-> <<>>, files |-> files, seg_ids |-> <<>>,
            err |-> "", cell |-> 0], doc, 1)

\* ------------------------------------------------- hand-written documents
\* fraction_along values of a hand-written parent link, in units of 1e-5:
\* 0.0, 0.00005, 0.5, 0.99995, 1.0
Fractions == {0, 5, 50000, 99995, One}

\* the canonical groups a hand-written segment may be listed in
Memberships == {{}, {"soma_group"}, {"dendrite_group"}, {"axon_group"},
                {"soma_group", "dendrite_group"}}

\* the segments with id `id` that hand-written cell c may hold; its points are
\* (0, id, c) for the proximal and (1, id, c) for the distal end, diameter 2
HandSegments(id, c) ==
  {Segment(id, prox, <<1, id, c, 2>>, parent) :
     prox \in {None, <<0, id, c, 2>>},
     parent \in {None} \cup ((0 .. id - 1) \X Fractions)}

\* the segments of HandSegments attached to an end of their parent, if they have
\* one, and the memberships in at most one of the soma and dendrite groups
EndSegments(id, c) ==
  {seg \in HandSegments(id, c) : seg.parent = None \/ seg.parent[2] \in {0, One}}

SingleMemberships == {{}, {"soma_group"}, {"dendrite_group"}}

\* the group sg of a hand-written cell, given each segment's memberships
HandGroup(sg, member_of) ==
  LET ids == {i \in DOMAIN member_of : sg \in member_of[i]}
  IN IF ids = {} THEN <<>>
     ELSE <<[id |-> sg, members |-> SortedSeq({i - 1 : i \in ids})]>>

\* the cell with the given segments (segs[i] has id i - 1), each listed in the
\* groups member_of[i]
HandCell(segs, member_of) ==
  Cell(segs, HandGroup("soma_group", member_of) \o HandGroup("axon_group", member_of)
               \o HandGroup("dendrite_group", member_of))

\* the documents of a single one-segment cell, in soma_group or in no group
SmallDocs ==
  {<<HandCell(segs, member_of)>> :
     segs \in [1 .. 1 -> HandSegments(0, 1)],
     member_of \in [1 .. 1 -> {{}, {"soma_group"}}]}

\* ---------------------------------------------------------------- actions
WriterInit ==
  /\ cell_segments = <<>>
  /\ cell_groups = <<>>
  /\ point_indices_vs_seg_ids = EmptyDict
  /\ next_segment_id = 0
  /\ processed_nodes = {}
  /\ segment_types = EmptyDict
  /\ segment_groups = NewWriter.segment_groups
  /\ nml_result = "none"

GlobalsInit ==
  /\ line_count = 1
  /\ line_index_vs_distals = EmptyDict
  /\ line_index_vs_proximals = EmptyDict
  /\ nml_read = None
  /\ lines = <<>>
  /\ seg_ids = <<>>
  /\ swc_files = EmptyDict
  /\ swc_result = [status |-> "none", cell |-> 0]

ExportInit ==
  /\ GlobalsInit
  /\ calls = <<>>

LoaderInit ==
  /\ points = <<>>
  /\ load_result = [id |-> 0, status |-> "none"]

Init ==
  /\ LoaderInit
  /\ nml_doc = None
  /\ WriterInit
  /\ ExportInit

\* add_node(node), for a node built from one line of the file
AddToGraph(node) ==
  /\ nml_result = "none"
  /\ nml_doc = None
  /\ \E r \in {add_node(points, node)} :
       /\ points' = r.nodes
       /\ load_result' = [id |-> node.id, status |-> IF r.err = "" THEN "ok" ELSE r.err]
  /\ UNCHANGED <<writer_vars, nml_doc, export_vars, calls>>

\* the loader adds the next node of the file to the graph
LoadNode(max, kinds) ==
  /\ Len(points) < max
  /\ \E k \in kinds, parent_id \in IF points = <<>> THEN {-1} ELSE 1 .. Len(points) :
       AddToGraph(SWCNode(Len(points) + 1, k[1], k[2], parent_id))

\* the (type, x) pairs of the lines of the files that may repeat an id
LoaderKinds == {SOMA, BASAL_DENDRITE} \X {0}

AddNodeOfFile == LoadNode(MaxNodes, LoaderKinds)

\* the loader meets a line whose id is already in the graph
AddExistingNode ==
  \E id \in 1 .. Len(points), k \in LoaderKinds, parent_id \in {-1} \cup (1 .. Len(points)) :
    AddToGraph(SWCNode(id, k[1], k[2], parent_id))

AddNode == LoadNode(MaxNodes, NodeKinds)

AddNodeAnyType == LoadNode(MaxNodesAnyType, TypeCodes \X XCoords)

\* NeuroMLWriter(swc_graph).nml_string()
NmlString ==
  /\ nml_result = "none"
  /\ nml_doc = None
  /\ IF Len(points) < 2
       THEN /\ nml_result' = "empty"
            /\ UNCHANGED <<cell_segments, cell_groups, point_indices_vs_seg_ids,
                           next_segment_id, processed_nodes, segment_types,
                           segment_groups, nml_doc>>
       ELSE \E start_point \in {find_start_point(points)} :
            \E W \in {parse_tree(NewWriter, points, start_point, start_point)} :
            \E groups \in {GroupsFrom(W.segment_groups, 1)} :
            LET has_soma == SomaSegmentIds(W.segment_types) # {}
            IN /\ cell_segments' = W.segments
               /\ point_indices_vs_seg_ids' = W.point_indices_vs_seg_ids
               /\ next_segment_id' = W.next_segment_id
               /\ processed_nodes' = W.processed_nodes
               /\ segment_types' = W.segment_types
               /\ segment_groups' = W.segment_groups
               /\ cell_groups' = groups
               /\ nml_result' = IF has_soma THEN "ok" ELSE "ValueError"
               /\ nml_doc' = IF has_soma THEN <<Cell(W.segments, groups)>> ELSE None
  /\ UNCHANGED <<loader_vars, export_vars, calls>>

\* a call convert_to_swc(nml_file_name) that reads document doc
Convert(doc) ==
  /\ \E C \in {convert_to_swc(Globals(line_count, line_index_vs_distals,
                                         line_index_vs_proximals), swc_files, doc)} :
        /\ line_count' = C.G.line_count
        /\ line_index_vs_distals' = C.G.line_index_vs_distals
        /\ line_index_vs_proximals' = C.G.line_index_vs_proximals
        /\ lines' = C.lines
        /\ seg_ids' = C.seg_ids
        /\ swc_files' = C.files
        /\ swc_result' = [status |-> IF C.err = "" THEN "ok" ELSE C.err, cell |-> C.cell]
  /\ nml_read' = doc
  /\ UNCHANGED <<loader_vars, writer_vars, nml_doc, calls>>

\* convert_to_swc on the document on file
ConvertToSwc ==
  /\ nml_doc # None
  /\ Convert(nml_doc)

\* convert_to_swc on another, small document
ConvertOther == \E doc \in SmallDocs : Convert(doc)

Next == AddNode \/ NmlString \/ ConvertToSwc

\* load a point tree, build the segment model, export it
Spec == Init /\ [][Next]_vars

NextAnyType == AddNodeAnyType \/ NmlString

\* load a small point tree of any type codes and build the segment model
SpecAnyType == Init /\ [][NextAnyType]_vars

\* the exporter alone, on hand-written documents
\* the document on file is one hand-written cell of up to MaxSegs segments, or two
\* cells of one segment each
InitExport ==
  /\ LoaderInit
  /\ \/ \E n \in 1 .. MaxSegs :
          \E segs \in [1 .. n -> UNION {HandSegments(id, 1) : id \in 0 .. n - 1}] :
            /\ \A i \in 1 .. n : segs[i].id = i - 1
            /\ \E member_of \in [1 .. n -> Memberships] :
                 nml_doc = <<HandCell(segs, member_of)>>
     \/ \E s1 \in HandSegments(0, 1), s2 \in HandSegments(0, 2) :
          \E m1 \in Memberships, m2 \in Memberships :
            nml_doc = <<HandCell(<<s1>>, <<m1>>), HandCell(<<s2>>, <<m2>>)>>
     \/ \E s1 \in HandSegments(0, 1), m1 \in Memberships, n \in 2 .. MaxSegs :
          \E segs \in [1 .. n -> UNION {EndSegments(id, 2) : id \in 0 .. n - 1}] :
            /\ \A i \in 1 .. n : segs[i].id = i - 1
            /\ \E member_of \in [1 .. n -> SingleMemberships] :
                 nml_doc = <<HandCell(<<s1>>, <<m1>>), HandCell(segs, member_of)>>
  /\ WriterInit
  /\ ExportInit

NextExport == ConvertToSwc \/ ConvertOther

SpecExport == InitExport /\ [][NextExport]_vars

\* two calls of convert_to_swc from two threads of one process, each on its own
\* file holding one cell of one segment; a step of a call is its entry or one
\* pass over a segment group or the writing of its file
Threads == {1, 2}

\* a call that has not been entered yet
NewCall(cell) ==
  [pc |-> "entry", cell |-> cell, lines |-> <<>>, counts |-> <<>>, err |-> ""]

\* the documents of thread t: one cell of one segment, with points (., 0, t)
CallCells(t) == {HandCell(<<s>>, <<m>>) : s \in HandSegments(0, t), m \in Memberships}

InitInterleaved ==
  /\ LoaderInit
  /\ nml_doc = None
  /\ WriterInit
  /\ GlobalsInit
  /\ \E c1 \in CallCells(1), c2 \in CallCells(2) :
       calls = [t \in Threads |-> NewCall(IF t = 1 THEN c1 ELSE c2)]

\* the type code convert_to_swc passes with each group
PassType(sg) ==
  IF sg = "soma_group" THEN SOMA ELSE IF sg = "dendrite_group" THEN BASAL_DENDRITE ELSE AXON

\* what follows the pass over group sg
AfterPass(sg) ==
  IF sg = "soma_group" THEN "dendrite_group"
  ELSE IF sg = "dendrite_group" THEN "axon_group"
  ELSE "write"

\* thread t enters convert_to_swc: resets the globals, reads its document, opens
\* the file of its cell
Enter(t) ==
  /\ calls[t].pc = "entry"
  /\ \E G \in {EntryGlobals(Globals(line_count, line_index_vs_distals,
                                    line_index_vs_proximals))} :
       /\ line_count' = G.line_count
       /\ line_index_vs_distals' = G.line_index_vs_distals
       /\ line_index_vs_proximals' = G.line_index_vs_proximals
  /\ swc_files' = Put(swc_files, t, <<>>)
  /\ calls' = [calls EXCEPT ![t].pc = "soma_group"]
  /\ UNCHANGED <<loader_vars, writer_vars, nml_doc, nml_read, lines, seg_ids, swc_result>>

\* thread t makes its next call of _get_lines_for_seg_group
GroupPass(t) ==
  /\ calls[t].pc \in {"soma_group", "dendrite_group", "axon_group"}
  /\ \E r \in {get_lines_for_seg_group(
                  Globals(line_count, line_index_vs_distals, line_index_vs_proximals),
                  calls[t].cell, calls[t].pc, PassType(calls[t].pc))} :
       /\ line_count' = r.G.line_count
       /\ line_index_vs_distals' = r.G.line_index_vs_distals
       /\ line_index_vs_proximals' = r.G.line_index_vs_proximals
       /\ calls' = [calls EXCEPT ![t] =
            IF r.err # "" THEN [@ EXCEPT !.pc = "raised", !.err = r.err]
            ELSE [@ EXCEPT !.pc = AfterPass(@), !.lines = @ \o r.lines,
                           !.counts = Append(@, Len(r.seg_ids))]]
  /\ UNCHANGED <<loader_vars, writer_vars, nml_doc, nml_read, lines, seg_ids,
                 swc_files, swc_result>>

\* thread t compares the counts and writes its lines to its file
WriteFile(t) ==
  /\ calls[t].pc = "write"
  /\ IF CountsAgree(Len(calls[t].cell.segments), calls[t].counts[1],
                    calls[t].counts[2], calls[t].counts[3])
       THEN /\ swc_files' = Put(swc_files, t, calls[t].lines)
            /\ calls' = [calls EXCEPT ![t].pc = "done"]
       ELSE /\ calls' = [calls EXCEPT ![t].pc = "raised", ![t].err = CoverageError]
            /\ UNCHANGED swc_files
  /\ UNCHANGED <<loader_vars, writer_vars, nml_doc, line_count, line_index_vs_distals,
                 line_index_vs_proximals, nml_read, lines, seg_ids, swc_result>>

NextInterleaved == \E t \in Threads : Enter(t) \/ GroupPass(t) \/ WriteFile(t)

SpecInterleaved == InitInterleaved /\ [][NextInterleaved]_vars

NextLoader == AddNodeOfFile \/ AddExistingNode

\* the loader alone, on files that may repeat an id
SpecLoader == Init /\ [][NextLoader]_vars

\* ------------------------------------------------- vocabulary of the claims
\* nml_string has returned or raised
Returned == nml_result # "none"

\* the ids of the soma-typed nodes of the graph
SomaIds == {n \in DOMAIN points : points[n].type = SOMA}

\* the ids of the segments the builder typed as soma
SomaSegIds == {id \in DOMAIN segment_types : segment_types[id] = SOMA}

\* the point of node n
PointOf(n) == <<points[n].x, points[n].y, points[n].z, 2 * points[n].radius>>

\* the built segment with the given id (ids are checked by C1)
SegOf(id) == cell_segments[CHOOSE i \in DOMAIN cell_segments : cell_segments[i].id = id]

\* the ids of the groups added to the cell, and the members of one of them
CellGroupIds == {cell_groups[i].id : i \in DOMAIN cell_groups}

CellGroupMembers(g) ==
  UNION {{cell_groups[i].members[k] : k \in DOMAIN cell_groups[i].members} :
           i \in {j \in DOMAIN cell_groups : cell_groups[j].id = g}}

TopologyGroups == {"soma_group", "axon_group", "dendrite_group"}

\* ---------------------------------------------------------------------- C1
\* C1: after a build, the segment ids in creation order are exactly 0..n-1 (no
\* gap, no repeat) and every parent reference is to a strictly smaller id.
C1_SegmentIdsSequential ==
  Returned =>
    /\ next_segment_id = Len(cell_segments)
    /\ \A i \in DOMAIN cell_segments :
         /\ cell_segments[i].id = i - 1
         /\ cell_segments[i].parent # None => cell_segments[i].parent[1] < i - 1

\* a build of soma and non-soma segments in which a parent reference was made
C1_Witness ==
  /\ nml_result = "ok"
  /\ Len(cell_segments) >= 3
  /\ \E i \in DOMAIN cell_segments :
       /\ cell_segments[i].parent # None
       /\ segment_types[cell_segments[i].id] # SOMA

\* ---------------------------------------------------------------------- C2
\* C2: every built segment is in group all, and in exactly one of soma_group,
\* axon_group, dendrite_group unless its type is 0, when it is in all only; the
\* groups added to the cell list the same members.
C2_GroupCoverage ==
  Returned =>
    /\ \A i \in DOMAIN cell_segments :
         LET id == cell_segments[i].id
             t == segment_types[id]
         IN /\ id \in segment_groups["all"]
            /\ t # UNDEFINED =>
                 Cardinality({g \in TopologyGroups : id \in segment_groups[g]}) = 1
            /\ t = UNDEFINED =>
                 \A g \in DOMAIN segment_groups : g # "all" => id \notin segment_groups[g]
    /\ Len(points) >= 2 =>
         \A g \in DOMAIN segment_groups : CellGroupMembers(g) = segment_groups[g]

\* a build with a soma segment, a custom-typed segment and an undefined-typed one
C2_Witness ==
  /\ nml_result = "ok"
  /\ \E id \in DOMAIN segment_types : segment_types[id] >= CUSTOM
  /\ \E id \in DOMAIN segment_types : segment_types[id] = UNDEFINED
  /\ \E id \in DOMAIN segment_types : segment_types[id] = SOMA

\* ---------------------------------------------------------------------- C3
\* C3: with exactly 3 soma nodes n1 < n2 < n3 (file order) the build emits exactly
\* two soma segments: A (proximal = n2's point, distal = n1's point) and B (parent
\* A, no proximal, distal = n3's point); soma_group is {A, B}; n2 and n3 emit no
\* segment of their own.
C3_ThreePointSoma ==
  (Returned /\ Cardinality(SomaIds) = 3) =>
    \E n1 \in SomaIds, n2 \in SomaIds, n3 \in SomaIds :
      /\ n1 < n2 /\ n2 < n3
      /\ n1 \in DOMAIN point_indices_vs_seg_ids
      /\ n3 \in DOMAIN point_indices_vs_seg_ids
      /\ n2 \notin DOMAIN point_indices_vs_seg_ids
      /\ LET a == point_indices_vs_seg_ids[n1]
             b == point_indices_vs_seg_ids[n3]
         IN /\ a # b
            /\ SomaSegIds = {a, b}
            /\ SegOf(a).proximal = PointOf(n2)
            /\ SegOf(a).distal = PointOf(n1)
            /\ SegOf(b).parent # None
            /\ SegOf(b).parent[1] = a
            /\ SegOf(b).proximal = None
            /\ SegOf(b).distal = PointOf(n3)
            /\ segment_groups["soma_group"] = {a, b}
            /\ CellGroupMembers("soma_group") = {a, b}
      /\ Len(cell_segments) = 2 + Cardinality(processed_nodes \ SomaIds)

\* a build of a 3-soma tree whose third soma node hangs from the second, all
\* three visited, with a non-soma node as well
C3_Witness ==
  /\ nml_result = "ok"
  /\ Cardinality(SomaIds) = 3
  /\ SomaIds \subseteq processed_nodes
  /\ \E n \in SomaIds : points[n].parent_id \in SomaIds /\ points[n].parent_id > 1
  /\ Len(cell_segments) = 3

BeforeByX(n, m) ==
  \/ points[n].x < points[m].x
  \/ points[n].x = points[m].x /\ n < m

\* the soma node sorted right after n, if any
NextByX(n) ==
  {m \in SomaIds : BeforeByX(n, m) /\ ~\E k \in SomaIds : BeforeByX(n, k) /\ BeforeByX(k, m)}

\* the node and its ancestors, by parent_id
RECURSIVE AncestorsOrSelf(_)
AncestorsOrSelf(n) ==
  IF n \notin DOMAIN points THEN {} ELSE {n} \cup AncestorsOrSelf(points[n].parent_id)

\* the soma node the traversal starts at (the first of the file) and the soma
\* node of lowest x (the first of the sort)
StartSoma == CHOOSE n \in SomaIds : \A m \in SomaIds : n <= m

LowestXSoma == CHOOSE n \in SomaIds : \A m \in SomaIds \ {n} : BeforeByX(n, m)

StartsAtLowestX == StartSoma = LowestXSoma

\* the child of node a on the way down to its descendant n
ChildToward(a, n) == CHOOSE c \in AncestorsOrSelf(n) : points[c].parent_id = a

\* the depth-first, children-in-file-order traversal from the start node comes to
\* node m before it comes to node n
VisitedBefore(m, n) ==
  /\ m # n
  /\ StartSoma \in AncestorsOrSelf(m)
  /\ StartSoma \in AncestorsOrSelf(n)
  /\ n \notin AncestorsOrSelf(m)
  /\ \/ m \in AncestorsOrSelf(n)
     \/ LET common == AncestorsOrSelf(m) \cap AncestorsOrSelf(n)
            fork == CHOOSE a \in common : \A b \in common : b <= a
        IN ChildToward(fork, m) < ChildToward(fork, n)

\* the soma nodes the multi-point handler emits a segment for: those not visited
\* when the traversal reaches the lowest-x soma node, none if it never does
EmittedFor ==
  IF StartSoma \in AncestorsOrSelf(LowestXSoma)
    THEN {m \in SomaIds : ~VisitedBefore(m, LowestXSoma)}
    ELSE {}

\* the soma nodes a soma segment was emitted for
SomaNodesOf(id) ==
  {n \in SomaIds : n \in DOMAIN point_indices_vs_seg_ids /\ point_indices_vs_seg_ids[n] = id}

\* the soma segments form one chain, in ascending x order of their nodes
SomaChainByX ==
  \A id \in SomaSegIds :
    /\ Cardinality(SomaNodesOf(id)) = 1
    /\ \A n \in SomaNodesOf(id) :
         IF \E m \in SomaIds : BeforeByX(m, n)
           THEN /\ SegOf(id).parent = <<id - 1, One>>
                /\ SegOf(id).proximal = None
                /\ \E m \in SomaNodesOf(id - 1) :
                     /\ BeforeByX(m, n)
                     /\ ~\E id2 \in SomaSegIds : \E k \in SomaNodesOf(id2) :
                          BeforeByX(m, k) /\ BeforeByX(k, n)
           ELSE /\ SegOf(id).parent = None
                /\ SegOf(id).proximal = PointOf(n)

FailedForNoSoma ==
  /\ nml_result = "ValueError"
  /\ nml_doc = None
  /\ Len(cell_segments) = Cardinality(processed_nodes)
  /\ cell_segments # <<>>
  /\ "soma_group" \notin CellGroupIds
  /\ "all" \in CellGroupIds
  /\ CellGroupIds = {g \in DOMAIN segment_groups : segment_groups[g] # {}}
  /\ \A g \in CellGroupIds : CellGroupMembers(g) = segment_groups[g]
  /\ \A i \in DOMAIN cell_segments :
       segment_types[cell_segments[i].id] = AXON =>
         cell_segments[i].id \in CellGroupMembers("axon_group")

\* C6 as stated: for any point-tree without soma nodes the build fails with the
\* no-soma error after the segments and non-soma groups were added to the cell.
C6_Original ==
  (Returned /\ points # <<>> /\ SomaIds = {}) => FailedForNoSoma

\* C6 amended: the same for point-trees of at least 2 nodes; for a single node
\* nml_string returns the empty string without building or failing.
C6_NoSomaFails ==
  (Returned /\ points # <<>> /\ SomaIds = {}) =>
    IF Len(points) >= 2 THEN FailedForNoSoma
    ELSE nml_result = "empty" /\ cell_segments = <<>> /\ cell_groups = <<>>

\* a failed build of a soma-less tree with an axon and a dendrite
C6_Witness ==
  /\ nml_result = "ValueError"
  /\ SomaIds = {}
  /\ "axon_group" \in CellGroupIds
  /\ "dendrite_group" \in CellGroupIds

\* ---------------------------------------------------------------------- C7
\* convert_to_swc has returned or raised
Exported == swc_result.status # "none"

\* the number of built segments with an explicit proximal
ProximalCount ==
  Cardinality({i \in DOMAIN cell_segments : cell_segments[i].proximal # None})

\* a built segment of a canonical group whose parent has no line when the segment
\* is reached: the parent has type 0, or the segment is a dendrite on an axon
ParentNotYetExported ==
  \E i \in DOMAIN cell_segments :
    LET seg == cell_segments[i] IN
    /\ seg.parent # None
    /\ segment_types[seg.id] # UNDEFINED
    /\ \/ segment_types[seg.parent[1]] = UNDEFINED
       \/ /\ segment_types[seg.id] >= BASAL_DENDRITE
          /\ segment_types[seg.parent[1]] = AXON

ReachedSegment(k) ==
  LET segs == nml_read[seg_ids[k][1]].segments
  IN segs[CHOOSE i \in DOMAIN segs : segs[i].id = seg_ids[k][2]]

\* the segment has a parent and its fraction is within 1e-4 of neither 0 nor 1
OffEndAttachment(segment) ==
  /\ segment.parent # None
  /\ ~(segment.parent[2] > -Tol /\ segment.parent[2] < Tol)
  /\ ~(segment.parent[2] > One - Tol /\ segment.parent[2] < One + Tol)

\* a line for the distal or proximal point of the reached segment k; the points
\* of a hand-written segment carry its id as y and its cell as z
IsLineOf(line, k) == line.y = seg_ids[k][2] /\ line.z = seg_ids[k][1]

\* C8: a reached segment whose parent fraction is within 1e-4 of neither 0 nor 1
\* makes the export fail with the attachment error, at that segment, and neither
\* the lines list nor any file holds a line for it.
C8_OffEndAttachmentFails ==
  Exported =>
    \A k \in DOMAIN seg_ids :
      OffEndAttachment(ReachedSegment(k)) =>
        /\ swc_result.status = AttachmentError
        /\ swc_result.cell = seg_ids[k][1]
        /\ k = Len(seg_ids)
        /\ \A j \in DOMAIN lines : ~IsLineOf(lines[j], k)
        /\ \A c \in DOMAIN swc_files : \A j \in DOMAIN swc_files[c] :
             ~IsLineOf(swc_files[c][j], k)

\* an export that fails at its third segment, attached half way along its
\* parent, after lines for the first two were made
C8_Witness ==
  /\ swc_result.status = AttachmentError
  /\ Len(seg_ids) >= 3
  /\ ReachedSegment(Len(seg_ids)).parent[2] = 50000
  /\ line_count >= 3

\* ---------------------------------------------------------------------- C9
\* the three group passes over cell c of the last call ended without exception
PassesCompleted(c) ==
  /\ c \in DOMAIN nml_read
  /\ c <= swc_result.cell
  /\ c = swc_result.cell => swc_result.status \notin {"KeyError", AttachmentError}

\* the number of segments visited in cell c across the three groups
VisitedIn(c) == Cardinality({k \in DOMAIN seg_ids : seg_ids[k][1] = c})

\* C9: whenever the three passes over a cell visit a number of segments other than
\* the cell's segment count, the export fails at that cell with the coverage
\* error and the cell's file holds no line.
C9_CoverageChecked ==
  Exported =>
    \A c \in DOMAIN nml_read :
      (PassesCompleted(c) /\ VisitedIn(c) # Len(nml_read[c].segments)) =>
        /\ swc_result.status = CoverageError
        /\ swc_result.cell = c
        /\ swc_files[c] = <<>>

\* a coverage failure after lines were made: more segments visited than the cell
\* has, or fewer with some visited
C9_Witness ==
  /\ swc_result.status = CoverageError
  /\ lines # <<>>
  /\ swc_files[swc_result.cell] = <<>>
  /\ Len(nml_read[swc_result.cell].segments) >= 2

\* --------------------------------------------------------------------- C10
\* C10: after a call the lines made are numbered 1, 2, 3, ... in order, the
\* counter is past them, and the line tables hold only segments reached in this
\* call with line numbers of this call, whatever the call before left.
C10_LineNumbering ==
  Exported =>
    /\ \A k \in DOMAIN lines : lines[k].n = k
    /\ line_count >= Len(lines) + 1
    /\ swc_result.status \in {"ok", CoverageError} => line_count = Len(lines) + 1
    /\ \A id \in DOMAIN line_index_vs_distals :
         /\ \E k \in DOMAIN seg_ids : seg_ids[k][2] = id
         /\ line_index_vs_distals[id] \in 1 .. line_count - 1
    /\ \A id \in DOMAIN line_index_vs_proximals :
         /\ id \in DOMAIN line_index_vs_distals
         /\ line_index_vs_proximals[id] \in 1 .. line_count - 1

\* a successful call on a one-cell document after a call on a two-cell document
\* that failed at its second cell (whose file it left empty)
C10_Witness ==
  /\ swc_result.status = "ok"
  /\ Len(nml_read) = 1
  /\ 2 \in DOMAIN swc_files
  /\ swc_files[2] = <<>>
  /\ lines # <<>>
  /\ lines[1].n = 1

\* --------------------------------------------------------------------- C12
\* the lines the last call made for the segments of cell c
LinesOfCell(c) == {j \in DOMAIN lines : lines[j].z = c}

\* C12 as stated: a call either succeeds with every cell's file written, or fails
\* with no line in the file of any cell of the document.
C12_Original ==
  Exported =>
    IF swc_result.status = "ok"
      THEN \A c \in DOMAIN nml_read :
             /\ c \in DOMAIN swc_files
             /\ \A j \in LinesOfCell(c) :
                  \E i \in DOMAIN swc_files[c] : swc_files[c][i] = lines[j]
      ELSE \A c \in DOMAIN nml_read : c \in DOMAIN swc_files => swc_files[c] = <<>>

\* --------------------------------------------------------------------- C13
\* the place of a line's type code in the order of the passes: 1, then 3, then 2
PassRank(type) == IF type = SOMA THEN 0 ELSE IF type = BASAL_DENDRITE THEN 1 ELSE 2

\* the segment of the document read that line j was made for
SegmentOfLine(j) ==
  LET segs == nml_read[lines[j].z].segments
  IN segs[CHOOSE i \in DOMAIN segs : segs[i].id = lines[j].y]

\* line j is for the proximal point of its segment (x = 0 in these documents)
IsProximalLine(j) == lines[j].x = 0

\* C13: among the lines of a cell, soma lines (type 1) come before dendrite lines
\* (type 3) and those before axon lines (type 2), each line carrying the type of
\* a group its segment is listed in; a proximal line is immediately followed by
\* the distal line of the same segment, which names it as parent, and the distal
\* line of a segment with a proximal point immediately follows a proximal line.
C13_GroupOrder ==
  Exported =>
    /\ \A i \in DOMAIN lines : \A j \in DOMAIN lines :
         (i < j /\ lines[i].z = lines[j].z) =>
           PassRank(lines[i].type) <= PassRank(lines[j].type)
    /\ \A j \in DOMAIN lines :
         /\ lines[j].type \in {SOMA, BASAL_DENDRITE, AXON}
         /\ IsProximalLine(j) =>
              /\ j + 1 \in DOMAIN lines
              /\ ~IsProximalLine(j + 1)
              /\ lines[j + 1].y = lines[j].y
              /\ lines[j + 1].z = lines[j].z
              /\ lines[j + 1].type = lines[j].type
              /\ lines[j + 1].parent = lines[j].n
         /\ (~IsProximalLine(j) /\ SegmentOfLine(j).proximal # None) =>
              /\ j - 1 \in DOMAIN lines
              /\ IsProximalLine(j - 1)
    /\ swc_result.status = "ok" => swc_files[Len(nml_read)] = lines

\* an export that made lines in all three passes, one of them proximal (the
\* first segment is listed in two groups, so the count comparison then fails)
C13_Witness ==
  /\ Exported
  /\ \E j \in DOMAIN lines : lines[j].type = SOMA
  /\ \E j \in DOMAIN lines : lines[j].type = BASAL_DENDRITE /\ IsProximalLine(j)
  /\ \E j \in DOMAIN lines : lines[j].type = AXON

\* ---------------------------------------------- vocabulary of C15 to C20
\* nml_string got to the traversal and the traversal has ended
Traversed == nml_result \in {"ok", "ValueError"}

\* the node the traversal starts at: the first soma node, else the first node
StartPoint == IF SomaIds # {} THEN StartSoma ELSE 1

\* the parent point the traversal hands to the step of node n (the start node is
\* handed itself)
ParentPointOf(n) == IF n = StartPoint THEN n ELSE points[n].parent_id

\* the children of node n, by file order
ChildIds(n) == {c \in DOMAIN points : points[c].parent_id = n}

\* the non-soma nodes the traversal visited; each went through create_segment
VisitedNeurites == {n \in processed_nodes : points[n].type # SOMA}

\* the segment recorded for node n
SegmentFor(n) == SegOf(point_indices_vs_seg_ids[n])

\* --------------------------------------------------------------------- C15
\* C15 as stated: after the traversal of a tree with soma nodes, every soma node
\* is mapped to a soma segment.
C15_Original ==
  (Traversed /\ SomaIds # {}) =>
    \A n \in SomaIds :
      /\ n \in DOMAIN point_indices_vs_seg_ids
      /\ point_indices_vs_seg_ids[n] \in SomaSegIds

\* --------------------------------------------------------------------- C16
\* C16 as stated, at the end of the traversal: every node reachable from the
\* start point through child links is in the processed set.
C16_Original ==
  Traversed =>
    \A n \in DOMAIN points : StartPoint \in AncestorsOrSelf(n) => n \in processed_nodes

\* --------------------------------------------------------------------- C17
\* C17 as stated: a visited non-soma node that is the only child of a parent of
\* its own type has no segment of its own.
C17_Original ==
  Traversed =>
    \A n \in VisitedNeurites :
      (/\ n # StartPoint
       /\ points[n].type = points[ParentPointOf(n)].type
       /\ Cardinality(ChildIds(ParentPointOf(n))) = 1)
        => n \notin DOMAIN point_indices_vs_seg_ids

\* C17 amended: every visited non-soma node gets a new segment of its own, of the
\* node's type, also the only child of a same-typed parent, whose segment has
\* no proximal and the node's point as distal.
C17_SegmentPerNode ==
  Traversed =>
    /\ \A n \in VisitedNeurites :
         /\ n \in DOMAIN point_indices_vs_seg_ids
         /\ segment_types[point_indices_vs_seg_ids[n]] = points[n].type
         /\ \A m \in VisitedNeurites :
              m # n => point_indices_vs_seg_ids[m] # point_indices_vs_seg_ids[n]
         /\ (/\ points[n].type = points[ParentPointOf(n)].type
             /\ Cardinality(ChildIds(ParentPointOf(n))) = 1)
              => /\ SegmentFor(n).proximal = None
                 /\ SegmentFor(n).distal = PointOf(n)
    /\ Cardinality(DOMAIN segment_types \ SomaSegIds) = Cardinality(VisitedNeurites)

\* a build in which an only child of a same-typed non-soma parent got a segment
C17_Witness ==
  /\ nml_result = "ok"
  /\ \E n \in VisitedNeurites :
       /\ n # StartPoint
       /\ points[n].type = points[ParentPointOf(n)].type
       /\ Cardinality(ChildIds(ParentPointOf(n))) = 1
       /\ n \in DOMAIN point_indices_vs_seg_ids

\* --------------------------------------------------------------------- C18
\* C18 as stated: the segment of a visited non-soma node has a proximal exactly
\* when the node's type differs from its parent's, and it is the parent's point.
C18_Original ==
  Traversed =>
    \A n \in VisitedNeurites :
      IF points[n].type # points[ParentPointOf(n)].type
        THEN SegmentFor(n).proximal = PointOf(ParentPointOf(n))
        ELSE SegmentFor(n).proximal = None

\* C18 amended: the segment of a visited non-soma node has a proximal exactly when
\* the node's type differs from its parent's or the parent has more than one
\* child: at a type boundary it is the node's own point, at a same-type branch
\* start the parent's point (the start node of a soma-less tree being its own
\* parent); in every other case the proximal is unset.
C18_Proximal ==
  Traversed =>
    \A n \in VisitedNeurites :
      SegmentFor(n).proximal =
        IF points[n].type # points[ParentPointOf(n)].type THEN PointOf(n)
        ELSE IF Cardinality(ChildIds(ParentPointOf(n))) > 1
          THEN PointOf(ParentPointOf(n))
        ELSE None

\* a build with a type-boundary segment and a same-type branch start whose parent
\* is another node
C18_Witness ==
  /\ nml_result = "ok"
  /\ \E n \in VisitedNeurites : points[n].type # points[ParentPointOf(n)].type
  /\ \E n \in VisitedNeurites :
       /\ points[n].type = points[ParentPointOf(n)].type
       /\ SegmentFor(n).proximal # None
       /\ SegmentFor(n).proximal # PointOf(n)

\* --------------------------------------------------------------------- C19
\* C19: the segment of every visited non-soma node has a distal: the point of the
\* node's first-declared child when the node's type differs from its parent's
\* and it has a child, else the node's own point.
C19_Distal ==
  Traversed =>
    \A n \in VisitedNeurites :
      /\ SegmentFor(n).distal # None
      /\ SegmentFor(n).distal =
           IF points[n].type # points[ParentPointOf(n)].type /\ ChildIds(n) # {}
             THEN PointOf(CHOOSE c \in ChildIds(n) : \A d \in ChildIds(n) : c <= d)
             ELSE PointOf(n)

\* a build with a type-boundary node that has two children and one that has none
C19_Witness ==
  /\ nml_result = "ok"
  /\ \E n \in VisitedNeurites :
       /\ points[n].type # points[ParentPointOf(n)].type
       /\ Cardinality(ChildIds(n)) = 2
  /\ \E n \in VisitedNeurites :
       /\ points[n].type # points[ParentPointOf(n)].type
       /\ ChildIds(n) = {}

\* --------------------------------------------------------------------- C20
\* C20 as stated: the segment of a visited non-soma node whose parent node was
\* visited refers to the segment recorded for the parent node.
C20_Original ==
  Traversed =>
    \A n \in VisitedNeurites :
      (n # StartPoint /\ points[n].parent_id \in processed_nodes) =>
        /\ points[n].parent_id \in DOMAIN point_indices_vs_seg_ids
        /\ SegmentFor(n).parent # None
        /\ SegmentFor(n).parent[1] = point_indices_vs_seg_ids[points[n].parent_id]

Alone(cell) == convert_to_swc(Globals(1, EmptyDict, EmptyDict), EmptyDict, <<cell>>)

\* C11 as stated: a call whose steps interleave with another call's ends as it
\* does alone: with the same exception, or with the same lines in its file.
C11_Original ==
  \A t \in DOMAIN calls :
    /\ calls[t].pc = "raised" => calls[t].err = Alone(calls[t].cell).err
    /\ calls[t].pc = "done" =>
         /\ Alone(calls[t].cell).err = ""
         /\ swc_files[t] = Alone(calls[t].cell).lines

\* --------------------------------------------------------------------- C21
\* the soma nodes are connected cylinders: each but the first of the file is the
\* child of the soma node before it in the file
SomaCylinders ==
  \A n \in SomaIds \ {StartSoma} :
    /\ points[n].parent_id \in SomaIds
    /\ points[n].parent_id < n
    /\ ~\E k \in SomaIds : points[n].parent_id < k /\ k < n

\* C21 as stated: with 4 or more soma nodes arranged as connected cylinders each
\* soma node gets a segment of its own whose parent is the segment of the node's
\* parent in the tree (none for the first), not the segment of the soma node
\* sorted before it by x.
C21_Original ==
  (Returned /\ Cardinality(SomaIds) >= 4 /\ SomaCylinders) =>
    \A n \in SomaIds :
      /\ n \in DOMAIN point_indices_vs_seg_ids
      /\ \A m \in SomaIds \ {n} :
           m \in DOMAIN point_indices_vs_seg_ids =>
             point_indices_vs_seg_ids[m] # point_indices_vs_seg_ids[n]
      /\ SegmentFor(n).parent =
           IF n = StartSoma THEN None
           ELSE SegmentParent(point_indices_vs_seg_ids[points[n].parent_id])

C23_Original ==
  (Exported /\ swc_result.status = AttachmentError) =>
    OffEndAttachment(ReachedSegment(Len(seg_ids)))

\* --------------------------------------------------------------------- C24
\* the parent field that line j must carry by the rule of C24, if it is a line
\* of the segment's proximal point or the segment has none: the numbers of the
\* lines of the parent segment's distal point (fraction 1.0, within 1e-4) or of
\* its proximal point (fraction 0.0), in the same cell; -1 without a parent
ParentLinesFor(j) ==
  LET s == SegmentOfLine(j) IN
  IF s.parent = None THEN {-1}
  ELSE {lines[k].n : k \in {i \in DOMAIN lines :
                              /\ lines[i].z = lines[j].z
                              /\ lines[i].y = s.parent[1]
                              /\ IsProximalLine(i) <=> s.parent[2] < Tol}}

\* C24 as stated: in a successful export the line of a segment's proximal point,
\* or of its distal point when it has no proximal, names the parent segment's
\* distal line (fraction 1.0) or proximal line (fraction 0.0), or -1 without a
\* parent; the distal line of a segment with a proximal names that proximal line.
C24_Original ==
  swc_result.status = "ok" =>
    \A j \in DOMAIN lines :
      IF ~IsProximalLine(j) /\ SegmentOfLine(j).proximal # None
        THEN /\ j - 1 \in DOMAIN lines
             /\ IsProximalLine(j - 1)
             /\ lines[j - 1].y = lines[j].y
             /\ lines[j - 1].z = lines[j].z
             /\ lines[j].parent = lines[j - 1].n
        ELSE lines[j].parent \in ParentLinesFor(j)

\* --------------------------------------------------------------------- C25
\* the built segments without a parent reference
Parentless == {i \in DOMAIN cell_segments : cell_segments[i].parent = None}

\* every node of the tree is the start point or a descendant of it
AllReachable == \A n \in DOMAIN points : StartPoint \in AncestorsOrSelf(n)

\* C25 as stated: after the build of a tree with a soma, every node of which is
\* reachable from the start point, exactly one segment has no parent reference,
\* and the segment of every non-soma child of a soma node has one.
C25_Original ==
  (Traversed /\ SomaIds # {} /\ AllReachable) =>
    /\ Cardinality(Parentless) = 1
    /\ \A n \in VisitedNeurites :
         points[n].parent_id \in SomaIds => SegmentFor(n).parent # None

\* --------------------------------------------------------------------- C26
\* C26 as stated: every segment built without a parent reference has an explicit
\* proximal point, the segment of the start node of a tree without soma included.
C26_Original ==
  Traversed => \A i \in Parentless : cell_segments[i].proximal # None

\* --------------------------------------------------------------------- C27
\* C27 as stated: after the traversal every node of the graph is in the processed
\* set, also when the first soma node of the file is not the root of the tree.
C27_Original ==
  Traversed => \A n \in DOMAIN points : n \in processed_nodes

\* --------------------------------------------------------------------- C28
\* the lines the last call made for the distal point of segment id of cell c
DistalLinesOf(c, id) ==
  {j \in LinesOfCell(c) : lines[j].y = id /\ ~IsProximalLine(j)}

\* C28 as stated: when an export succeeds, every segment of every cell has exactly
\* one distal line among the lines made.
C28_Original ==
  swc_result.status = "ok" =>
    \A c \in DOMAIN nml_read : \A i \in DOMAIN nml_read[c].segments :
      Cardinality(DistalLinesOf(c, nml_read[c].segments[i].id)) = 1

\* --------------------------------------------------------------------- C29
\* C29: in every file written, the lines are numbered by their place and the
\* parent field of a line is -1 or the number of an earlier line of the same
\* file; in a successful export a line has parent field -1 only if it is for a
\* segment without parent, and an export that fails because the parent segment
\* has no line of the kind looked up leaves the file of its cell empty.
C29_NoDanglingParent ==
  /\ \A c \in DOMAIN swc_files : \A i \in DOMAIN swc_files[c] :
       /\ swc_files[c][i].n = i
       /\ \/ swc_files[c][i].parent = -1
          \/ /\ swc_files[c][i].parent < swc_files[c][i].n
             /\ \E k \in 1 .. i - 1 : swc_files[c][k].n = swc_files[c][i].parent
  /\ swc_result.status = "ok" =>
       \A j \in DOMAIN lines :
         lines[j].parent = -1 =>
           /\ SegmentOfLine(j).parent = None
           /\ IsProximalLine(j) \/ SegmentOfLine(j).proximal = None
  /\ swc_result.status = "KeyError" => swc_files[swc_result.cell] = <<>>

\* a successful export where a segment is attached at fraction 0.0 to a parent
\* with a proximal line, and one where the second cell's file is written
C29_Witness ==
  /\ swc_result.status = "ok"
  /\ \E j \in DOMAIN lines :
       /\ SegmentOfLine(j).parent # None
       /\ SegmentOfLine(j).parent[2] = 0
       /\ lines[j].parent >= 1
       /\ IsProximalLine(lines[j].parent)
  /\ \E c \in DOMAIN swc_files : \E i \in DOMAIN swc_files[c] :
       swc_files[c][i].parent >= 1

\* --------------------------------------------------------------------- C30
\* C30 as stated: after a successful export of a document, the file of each cell
\* holds exactly the lines of that cell's segments, numbered from 1, and every
\* parent field in it is -1 or the number of a line of the same cell.
C30_Original ==
  swc_result.status = "ok" =>
    \A c \in DOMAIN nml_read :
      /\ c \in DOMAIN swc_files
      /\ \A i \in DOMAIN swc_files[c] :
           /\ swc_files[c][i].z = c
           /\ swc_files[c][i].n = i
      /\ \A j \in LinesOfCell(c) :
           \/ lines[j].parent = -1
           \/ \E k \in LinesOfCell(c) : lines[k].n = lines[j].parent

====
